---- MODULE Spec2Model ----
(***************************************************************************)
(* pg_extism: a PostgreSQL extension that registers (extism_define) and    *)
(* invokes (extism_call) sandboxed WebAssembly plugins.  The model covers  *)
(* src/src/lib.rs: the sandbox manifest, the metadata resolution, the SQL  *)
(* text generator, the generated PL/pgSQL body and the plugin call.        *)
(***************************************************************************)
EXTENDS Integers, Sequences, FiniteSets, TLC

\* ------------------------------------------------------------------ bounds

\* Total number of statements (extism_define calls and calls of synthesized
\* functions) begun in one behaviour.
MaxStatements == 3

\* Database backends executing statements concurrently.
Backends == {"b1", "b2"}

\* ------------------------------------------------------- program constants

\* MemoryOptions { max_pages: Some(5) }
MaxPages == 5

\* with_timeout(Duration::from_secs(10))
TimeoutSecs == 10

\* ------------------------------------------------------------ plain helpers

Last(s) == s[Len(s)]

Reverse(s) == [i \in 1..Len(s) |-> s[Len(s) + 1 - i]]

RECURSIVE Concat(_)
Concat(ss) == IF ss = <<>> THEN <<>> ELSE Head(ss) \o Concat(Tail(ss))

\* Vec::join on sequences of characters.
RECURSIVE Join(_, _)
Join(ss, sep) ==
    IF ss = <<>> THEN <<>>
    ELSE IF Len(ss) = 1 THEN ss[1]
    ELSE ss[1] \o sep \o Join(Tail(ss), sep)

\* Text is a sequence of one-character strings.
Digits == <<"0", "1", "2", "3", "4", "5", "6", "7", "8", "9">>

IsDigit(c) == \E i \in 1..10 : Digits[i] = c

DigitVal(c) == (CHOOSE i \in 1..10 : Digits[i] = c) - 1

RECURSIVE DigitsOf(_)
DigitsOf(n) ==
    IF n < 10 THEN <<Digits[n + 1]>>
    ELSE DigitsOf(n \div 10) \o <<Digits[(n % 10) + 1]>>

RECURSIVE NumberOf(_)
NumberOf(t) ==
    IF Len(t) = 1 THEN DigitVal(t[1])
    ELSE 10 * NumberOf(SubSeq(t, 1, Len(t) - 1)) + DigitVal(Last(t))

AllDigits(t) == Len(t) > 0 /\ \A i \in 1..Len(t) : IsDigit(t[i])

\* Split a text on a separator character (no quoting: the texts of the model
\* hold no separator inside an element).
RECURSIVE SplitOn(_, _)
SplitOn(t, sep) ==
    IF \A i \in 1..Len(t) : t[i] # sep THEN <<t>>
    ELSE LET k == CHOOSE i \in 1..Len(t) :
                      t[i] = sep /\ \A j \in 1..(i - 1) : t[j] # sep
         IN  <<SubSeq(t, 1, k - 1)>> \o SplitOn(SubSeq(t, k + 1, Len(t)), sep)

\* --------------------------------------------------------------- JSON values

\* serde_json::Value, restricted to null, string, number and flat arrays.
JNull == [k |-> "null", s |-> <<>>, n |-> 0, e |-> <<>>]

JStr(t) == [k |-> "string", s |-> t, n |-> 0, e |-> <<>>]

JNum(m) == [k |-> "number", s |-> <<>>, n |-> m, e |-> <<>>]

JArr(es) == [k |-> "array", s |-> <<>>, n |-> 0, e |-> es]

\* JSON text of a scalar.
JsonScalarText(v) ==
    CASE v.k = "string" -> <<"\"">> \o v.s \o <<"\"">>
      [] v.k = "number" -> DigitsOf(v.n)
      [] OTHER          -> <<"n", "u", "l", "l">>

\* JSON text of a value (compact, as serde_json::to_string writes it).
JsonText(v) ==
    IF v.k = "array"
    THEN <<"[">> \o Join([i \in 1..Len(v.e) |-> JsonScalarText(v.e[i])], <<",">>) \o <<"]">>
    ELSE JsonScalarText(v)

ParseFail == [ok |-> FALSE, v |-> JNull]

ParseOk(v) == [ok |-> TRUE, v |-> v]

\* JSON parser on a scalar text.
JsonScalarParse(t) ==
    IF AllDigits(t) THEN ParseOk(JNum(NumberOf(t)))
    ELSE IF t = <<"n", "u", "l", "l">> THEN ParseOk(JNull)
    ELSE IF /\ Len(t) >= 2
            /\ t[1] = "\""
            /\ Last(t) = "\""
            /\ \A i \in 2..(Len(t) - 1) : t[i] # "\""
         THEN ParseOk(JStr(SubSeq(t, 2, Len(t) - 1)))
    ELSE ParseFail

\* JSON parser on a text (the input function of the json type).
JsonParse(t) ==
    IF Len(t) >= 2 /\ t[1] = "[" /\ Last(t) = "]"
    THEN LET inner == SubSeq(t, 2, Len(t) - 1)
             parts == IF inner = <<>> THEN <<>> ELSE SplitOn(inner, ",")
             elems == [i \in 1..Len(parts) |-> JsonScalarParse(parts[i])]
         IN  IF \A i \in 1..Len(parts) : elems[i].ok
             THEN ParseOk(JArr([i \in 1..Len(parts) |-> elems[i].v]))
             ELSE ParseFail
    ELSE JsonScalarParse(t)

\* ---------------------------------------------------------------- SQL values

\* A database value: its type name and its content (carried as a JSON value).
SqlNull == [t |-> "NULL", v |-> JNull]

SqlText(t) == [t |-> "TEXT", v |-> JStr(t)]

CastFail == [ok |-> FALSE, v |-> SqlNull]

CastOk(ty, v) == [ok |-> TRUE, v |-> [t |-> ty, v |-> v]]

\* An array element as array_in reads it: surrounding double quotes dropped.
Dequote(t) ==
    IF Len(t) >= 2 /\ t[1] = "\"" /\ Last(t) = "\""
    THEN SubSeq(t, 2, Len(t) - 1)
    ELSE t

\* array_in: the text of an array literal is {elem,elem,...}.
ArrayIn(t) ==
    IF Len(t) >= 2 /\ t[1] = "{" /\ Last(t) = "}"
    THEN LET inner == SubSeq(t, 2, Len(t) - 1)
         IN  [ok |-> TRUE,
              parts |-> IF inner = <<>> THEN <<>> ELSE SplitOn(inner, ",")]
    ELSE [ok |-> FALSE, parts |-> <<>>]

\* The cast (text)::ty of the generated RETURN statement.
CastText(t, ty) ==
    CASE ty = "TEXT" -> CastOk(ty, JStr(t))
      [] ty = "NUMERIC" ->
            IF AllDigits(t) THEN CastOk(ty, JNum(NumberOf(t))) ELSE CastFail
      [] ty = "JSON" ->
            IF JsonParse(t).ok THEN CastOk(ty, JsonParse(t).v) ELSE CastFail
      [] ty = "TEXT[]" ->
            LET a == ArrayIn(t)
            IN  IF a.ok
                THEN CastOk(ty, JArr([i \in 1..Len(a.parts) |-> JStr(Dequote(a.parts[i]))]))
                ELSE CastFail
      [] ty = "NUMERIC[]" ->
            LET a == ArrayIn(t)
            IN  IF a.ok /\ \A i \in 1..Len(a.parts) : AllDigits(a.parts[i])
                THEN CastOk(ty, JArr([i \in 1..Len(a.parts) |-> JNum(NumberOf(a.parts[i]))]))
                ELSE CastFail
      [] OTHER ->
            LET a == ArrayIn(t)
            IN  IF a.ok /\ \A i \in 1..Len(a.parts) : JsonScalarParse(Dequote(a.parts[i])).ok
                THEN CastOk(ty, JArr([i \in 1..Len(a.parts) |->
                                         JsonScalarParse(Dequote(a.parts[i])).v]))
                ELSE CastFail

\* A parsed plugin response: a one-field object, or not an object.
Doc(isObj, key, val) == [obj |-> isObj, key |-> key, val |-> val]

\* The operator result_json->>'field': the field as text, NULL when the
\* document is no object, the key is absent or the value is JSON null.
GetFieldText(doc, field) ==
    IF ~doc.obj \/ doc.key # field \/ doc.val.k = "null" THEN SqlNull
    ELSE IF doc.val.k = "string" THEN SqlText(doc.val.s)
    ELSE SqlText(JsonText(doc.val))

\* ------------------------------------------------------------ plugin contract

\* enum Type
Types == {"String", "Number", "Json", "StringArray", "NumberArray", "JsonArray"}

type_to_sql(param_type) ==
    CASE param_type = "Number"      -> "NUMERIC"
      [] param_type = "String"      -> "TEXT"
      [] param_type = "StringArray" -> "TEXT[]"
      [] param_type = "NumberArray" -> "NUMERIC[]"
      [] param_type = "Json"        -> "JSON"
      [] OTHER                      -> "JSON[]"

\* struct PluginMetadata; parameters is a BTreeMap, a function from names.
PluginMetadata(ep, params, rt, rf) ==
    [entry_point |-> ep, parameters |-> params, return_type |-> rt, return_field |-> rf]

\* The parameter names of the model in the byte order a BTreeMap<String, _>
\* iterates them.
NameOrder == <<"1x", "items", "payload", "prompt", "text, b">>

\* Iteration over a BTreeMap: its keys in ascending order.
Iter(map) == SelectSeq(NameOrder, LAMBDA n : n \in DOMAIN map)

\* ------------------------------------------------------------- plugin files

\* The bytes a plugin's metadata export returns, as the JSON document they
\* spell (entryPoint, parameters, returnType, returnField).
MetaBytes(ep, params, rt, rf) ==
    [entryPoint |-> ep, parameters |-> params, returnType |-> rt, returnField |-> rf]

ChatParams == ("prompt" :> "String") @@ ("payload" :> "String")

\* A module file: its exports, whether its metadata export returns, the bytes
\* it returns, and the ways its entry point can end besides returning
\* {returnField: computed}.
PluginFile(exports, metaOk, meta, faults) ==
    [exports |-> exports, meta_ok |-> metaOk, meta |-> meta, faults |-> faults]

\* The plugins of the model, by locator.
Paths ==
    {"nometa.wasm", "trapmeta.wasm", "garbage.wasm", "chatgpt.wasm", "count.wasm",
     "tags.wasm", "noentry.wasm", "inject.wasm", "digit.wasm"}

Plugin(path) ==
    CASE path = "nometa.wasm" ->
            PluginFile({"chatgpt"}, FALSE,
                       MetaBytes("", ChatParams, "String", ""), {})
      [] path = "trapmeta.wasm" ->
            PluginFile({"metadata", "chatgpt"}, FALSE,
                       MetaBytes("", ChatParams, "String", ""), {})
      [] path = "garbage.wasm" ->
            PluginFile({"metadata", "chatgpt"}, TRUE,
                       MetaBytes("chatgpt", ChatParams, "Boolean", "response"), {})
      [] path = "chatgpt.wasm" ->
            PluginFile({"metadata", "chatgpt"}, TRUE,
                       MetaBytes("chatgpt", ChatParams, "String", "response"),
                       {"trap", "nonutf8", "nonjson", "nofield"})
      [] path = "count.wasm" ->
            PluginFile({"metadata", "count_vowels"}, TRUE,
                       MetaBytes("count_vowels", "prompt" :> "String", "Number", "count"),
                       {})
      [] path = "tags.wasm" ->
            PluginFile({"metadata", "tags"}, TRUE,
                       MetaBytes("tags", "items" :> "StringArray", "StringArray", "response"),
                       {})
      [] path = "noentry.wasm" ->
            PluginFile({"metadata", "chatgpt"}, TRUE,
                       MetaBytes("gone", ChatParams, "String", "response"), {})
      [] path = "inject.wasm" ->
            PluginFile({"metadata", "chatgpt"}, TRUE,
                       MetaBytes("", "text, b" :> "String", "String", "response"), {})
      [] OTHER ->
            PluginFile({"metadata", "chatgpt"}, TRUE,
                       MetaBytes("chatgpt", "1x" :> "String", "String", "response"), {})

\* serde_json::from_slice::<PluginMetadata>: every type tag must be a variant
\* of Type.
ParseMetadata(bytes) ==
    [ok |-> /\ bytes.returnType \in Types
            /\ \A n \in DOMAIN bytes.parameters : bytes.parameters[n] \in Types,
     md |-> PluginMetadata(bytes.entryPoint, bytes.parameters, bytes.returnType,
                           bytes.returnField)]

\* The value of a key of a call envelope (a sequence of key/value pairs).
Field(obj, key) ==
    LET hits == SelectSeq(obj, LAMBDA kv : kv.key = key)
    IN  IF hits = <<>> THEN JNull ELSE hits[1].val

\* What a plugin's entry point computes from its input envelope.
Compute(path, input) ==
    CASE path = "count.wasm" -> JNum(Len(Field(input, "prompt").s))
      [] path = "tags.wasm"  -> Field(input, "items")
      [] OTHER -> JStr(Field(input, "prompt").s \o <<" ">> \o Field(input, "payload").s)

\* The result of plugin.call(name, json) by the way the entry point ends.
NoBytes == [utf8 |-> FALSE, json |-> FALSE, doc |-> Doc(FALSE, "", JNull)]

PluginCall(path, input, outcome) ==
    LET field == Plugin(path).meta.returnField
    IN  CASE outcome = "ok" ->
                [ok |-> TRUE,
                 bytes |-> [utf8 |-> TRUE, json |-> TRUE,
                            doc |-> Doc(TRUE, field, Compute(path, input))]]
          [] outcome = "nofield" ->
                [ok |-> TRUE,
                 bytes |-> [utf8 |-> TRUE, json |-> TRUE,
                            doc |-> Doc(TRUE, "other", Compute(path, input))]]
          [] outcome = "nonjson" ->
                [ok |-> TRUE,
                 bytes |-> [utf8 |-> TRUE, json |-> FALSE, doc |-> Doc(FALSE, "", JNull)]]
          [] outcome = "nonutf8" -> [ok |-> TRUE, bytes |-> NoBytes]
          [] OTHER -> [ok |-> FALSE, bytes |-> NoBytes]

\* ---------------------------------------------------------- sandbox launcher

\* The manifest new_plugin builds.
Manifest(path, pages, hosts, paths, config, timeout) ==
    [wasm |-> path, max_pages |-> pages, allowed_hosts |-> hosts,
     allowed_paths |-> paths, config |-> config, timeout |-> timeout]

Some(x) == <<x>>

None == <<>>

new_plugin_no_timeout(path, loads) ==
    [loaded |-> loads,
     manifest |-> Manifest(path, Some(MaxPages), {"api.openai.com"}, {<<"/", "/">>},
                           {<<"openai_apikey", "">>}, None)]

new_plugin_path_config(path, loads) ==
    [loaded |-> loads,
     manifest |-> Manifest(path, Some(MaxPages), {"api.openai.com"}, {<<"/", "/">>},
                           {<<"openai_apikey", path>>}, Some(TimeoutSecs))]

\* new_plugin: the manifest is the same for every path but for the module file;
\* loads is whether Plugin::new_with_manifest succeeds (the file is there and
\* is a module that fits the memory ceiling), and unwrap() panics when not.
new_plugin(path, loads) ==
    [loaded |-> loads,
     manifest |-> Manifest(path, Some(MaxPages), {"api.openai.com"}, {<<"/", "/">>},
                           {<<"openai_apikey", "">>}, Some(TimeoutSecs))]

\* -------------------------------------------------------- function synthesizer

\* Variant of the generator that pairs each key of the argument object with
\* the parameter at the same position of the reversed signature.
generate_dynamic_function_positional(path, name, metadata) ==
    LET names == Iter(metadata.parameters)
        params_sql == Reverse([i \in 1..Len(names) |->
                         [name |-> names[i],
                          type |-> type_to_sql(metadata.parameters[names[i]])]])
    IN  [name |-> name,
         params |-> params_sql,
         returns |-> type_to_sql(metadata.return_type),
         object |-> [i \in 1..Len(names) |->
                        [key |-> names[i], var |-> params_sql[i].name]],
         path |-> path,
         entry_point |-> metadata.entry_point,
         return_field |-> metadata.return_field,
         cast |-> type_to_sql(metadata.return_type)]

\* generate_dynamic_function: the CREATE OR REPLACE FUNCTION text, by its parts:
\* the signature (reversed iteration order), the RETURNS type, the pairs of
\* json_build_object (iteration order), the arguments of extism_call, the
\* field and the cast of the RETURN statement.
generate_dynamic_function(path, name, metadata) ==
    LET names == Iter(metadata.parameters)
        params_sql == Reverse([i \in 1..Len(names) |->
                         [name |-> names[i],
                          type |-> type_to_sql(metadata.parameters[names[i]])]])
        params == [i \in 1..Len(names) |-> [key |-> names[i], var |-> names[i]]]
    IN  [name |-> name,
         params |-> params_sql,
         returns |-> type_to_sql(metadata.return_type),
         object |-> params,
         path |-> path,
         entry_point |-> metadata.entry_point,
         return_field |-> metadata.return_field,
         cast |-> type_to_sql(metadata.return_type)]

\* No definition text.
NoSql ==
    [name |-> "", params |-> <<>>, returns |-> "", object |-> <<>>, path |-> "",
     entry_point |-> "", return_field |-> "", cast |-> ""]

\* ------------------------------------------------- the engine's function catalog

\* The names of the model that are identifiers of the definition language.
Identifiers == {"items", "payload", "prompt"}

\* How the engine reads "<name> <type>" in a parameter list: one declaration
\* for an identifier; for the text "text, b" an unnamed text parameter and a
\* parameter b; a syntax error for a text that starts with a digit.
ParseParam(p) ==
    CASE p.name \in Identifiers ->
            [ok |-> TRUE, args |-> <<[name |-> p.name, type |-> p.type]>>]
      [] p.name = "text, b" ->
            [ok |-> TRUE,
             args |-> <<[name |-> "", type |-> "TEXT"], [name |-> "b", type |-> p.type]>>]
      [] OTHER -> [ok |-> FALSE, args |-> <<>>]

\* A catalog entry is identified by its name and its argument types.
Key(fn) == <<fn.name, [i \in 1..Len(fn.args) |-> fn.args[i].type]>>

NoFn ==
    [name |-> "", args |-> <<>>, returns |-> "", object |-> <<>>, path |-> "",
     entry_point |-> "", return_field |-> "", cast |-> ""]

\* Spi::run of the generated statement: CREATE OR REPLACE FUNCTION replaces the
\* entry of the same name and argument types, refusing a change of its return
\* type or of its parameter names, and otherwise adds an entry.
SpiRun(cat, sql) ==
    LET parsed == [i \in 1..Len(sql.params) |-> ParseParam(sql.params[i])]
        fn == [name |-> sql.name,
               args |-> Concat([i \in 1..Len(sql.params) |-> parsed[i].args]),
               returns |-> sql.returns,
               object |-> sql.object,
               path |-> sql.path,
               entry_point |-> sql.entry_point,
               return_field |-> sql.return_field,
               cast |-> sql.cast]
        same == {g \in cat : Key(g) = Key(fn)}
    IN  IF \E i \in 1..Len(sql.params) : ~parsed[i].ok
        THEN [ok |-> FALSE, error |-> "syntax error", catalog |-> cat]
        ELSE IF \E g \in same : g.returns # fn.returns
        THEN [ok |-> FALSE, error |-> "cannot change return type of existing function",
              catalog |-> cat]
        ELSE IF \E g \in same : \E i \in 1..Len(fn.args) : g.args[i].name # fn.args[i].name
        THEN [ok |-> FALSE, error |-> "cannot change name of input parameter",
              catalog |-> cat]
        ELSE [ok |-> TRUE, error |-> "", catalog |-> (cat \ same) \cup {fn}]

\* ------------------------------------------------------------ extism_define

ErrLoad == "called Result::unwrap() on an Err value"

ErrNoContract == "Expected a metadata function."

ErrCallFailed == "Failed to call metadata function"

ErrMalformed == "Failed to deserialize metadata"

DefineErr(error, cat) ==
    [ok |-> FALSE, error |-> error, catalog |-> cat, sql |-> NoSql]

\* Variant of extism_define without the has_function test: the metadata call
\* itself fails on a plugin that does not export it.
extism_define_unchecked(path, name, cat) ==
    LET p == Plugin(path)
        parsed == ParseMetadata(p.meta)
        sql == generate_dynamic_function(path, name, parsed.md)
        run == SpiRun(cat, sql)
    IN  IF "metadata" \notin p.exports \/ ~p.meta_ok THEN DefineErr(ErrCallFailed, cat)
        ELSE IF ~parsed.ok THEN DefineErr(ErrMalformed, cat)
        ELSE [ok |-> run.ok, error |-> run.error, catalog |-> run.catalog, sql |-> sql]

\* extism_define after new_plugin: has_function, the metadata call, the parse,
\* the generator and Spi::run, in this order.
extism_define(path, name, cat) ==
    LET p == Plugin(path)
        parsed == ParseMetadata(p.meta)
        sql == generate_dynamic_function(path, name, parsed.md)
        run == SpiRun(cat, sql)
    IN  IF "metadata" \notin p.exports THEN DefineErr(ErrNoContract, cat)
        ELSE IF ~p.meta_ok THEN DefineErr(ErrCallFailed, cat)
        ELSE IF ~parsed.ok THEN DefineErr(ErrMalformed, cat)
        ELSE [ok |-> run.ok, error |-> run.error, catalog |-> run.catalog, sql |-> sql]

\* ------------------------------------------------- the synthesized function body

\* json_build_object('k', k, ...): each value is the parameter of that name; a
\* name that is no parameter of the function is an error.
BuildObject(fn, args) ==
    LET bound(i) == \E j \in 1..Len(fn.args) : fn.args[j].name = fn.object[i].var
        index(i) == CHOOSE j \in 1..Len(fn.args) : fn.args[j].name = fn.object[i].var
    IN  [ok |-> \A i \in 1..Len(fn.object) : bound(i),
         obj |-> [i \in 1..Len(fn.object) |->
                     [key |-> fn.object[i].key,
                      val |-> IF bound(i) THEN args[index(i)].v ELSE JNull]]]

ErrCall == "Error while calling plugin"

ErrUtf8 == "Invalid UTF-8 sequence"

ErrCast == "invalid input syntax"

ErrColumn == "column does not exist"

\* extism_call from the result of plugin.call on: from_utf8, from_str, Json.
extism_call(res) ==
    IF ~res.ok THEN [ok |-> FALSE, error |-> ErrCall, doc |-> res.bytes.doc]
    ELSE IF ~res.bytes.utf8 THEN [ok |-> FALSE, error |-> ErrUtf8, doc |-> res.bytes.doc]
    ELSE IF ~res.bytes.json THEN [ok |-> FALSE, error |-> ErrLoad, doc |-> res.bytes.doc]
    ELSE [ok |-> TRUE, error |-> "", doc |-> res.bytes.doc]

\* A statement's outcome: status "ok" with a value, or "error" (the statement
\* is aborted); notice is the diagnostic raised on the way.
Outcome(status, error, value, notice) ==
    [status |-> status, error |-> error, value |-> value, notice |-> notice]

\* Variant of the body without an exception block: the error reaches the caller.
WhenOthersPropagate(sqlerrm) == Outcome("error", sqlerrm, SqlNull, "")

\* EXCEPTION WHEN others THEN RAISE NOTICE ..., SQLERRM; RETURN NULL;
WhenOthers(sqlerrm) == Outcome("ok", "", SqlNull, sqlerrm)

\* RETURN (result_json->>'field')::type, inside the block.
BodyReturn(fn, doc) ==
    LET x == GetFieldText(doc, fn.return_field)
        c == CastText(x.v.s, fn.cast)
    IN  IF x.t = "NULL" THEN Outcome("ok", "", SqlNull, "")
        ELSE IF c.ok THEN Outcome("ok", "", c.v, "")
        ELSE WhenOthers(ErrCast)

\* The body from the result of plugin.call on.
BodyAfterCall(fn, res) ==
    LET r == extism_call(res)
    IN  IF r.ok THEN BodyReturn(fn, r.doc) ELSE WhenOthers(r.error)

\* -------------------------------------------------------------------- state

VARIABLES
    catalog,    \* the engine's function catalog: a set of installed functions
    pc,         \* per backend: "idle", "defining" or "running"
    stmt,       \* per backend: the statement it executes or executed last
    held,       \* per backend: the plugin instance it holds, 0 for none
    instances,  \* the live plugin instances by id: manifest and linear memory
    started,    \* the number of statements begun
    elapsed,    \* per backend: seconds the running plugin call has taken, 0 when none
    last        \* per backend: the outcome of its last finished statement

vars == <<catalog, pc, stmt, held, instances, started, elapsed, last>>

\* The exposed names statements use.
Names == {"f"}

\* The argument values callers pass, by type.
ArgValues ==
    {SqlText(<<"a">>), SqlText(<<"b">>),
     [t |-> "TEXT[]", v |-> JArr(<<JStr(<<"a">>), JStr(<<"b">>)>>)]}

\* The argument lists a call of fn may pass: one value of each declared type.
ArgsFor(fn) ==
    {a \in [1..Len(fn.args) -> ArgValues] :
        \A i \in 1..Len(fn.args) : a[i].t = fn.args[i].type}

\* loads: whether the module loaded when the statement asked for it.
Statement(op, path, name, fn, args, loads) ==
    [op |-> op, path |-> path, name |-> name, fn |-> fn, args |-> args,
     loads |-> loads]

NoStatement == Statement("none", "", "", NoFn, <<>>, FALSE)

\* The record of a finished statement: its outcome, whether it changed the
\* catalog, the definition text it generated, the way the plugin call ended
\* and the envelope the plugin received.
Result(op, o, changed, sql, how, input) ==
    [op |-> op, status |-> o.status, error |-> o.error, value |-> o.value,
     notice |-> o.notice, changed |-> changed, sql |-> sql, how |-> how,
     input |-> input]

NoResult == Result("none", Outcome("none", "", SqlNull, ""), FALSE, NoSql, "", <<>>)

\* Seconds after which the model stops counting a call that nothing ends.
ElapsedCap == TimeoutSecs + 1

\* Variant of the load that takes a live instance of the same module when
\* there is one.
AllocPooled(path, live, n) ==
    IF \E i \in DOMAIN live : live[i].manifest.wasm = path
    THEN CHOOSE i \in DOMAIN live : live[i].manifest.wasm = path
    ELSE n + 1

\* Context::new() and Plugin::new_with_manifest: a new context and a new
\* instance for every call of extism_define and extism_call.
AllocInstance(path, live, n) == n + 1

Loaded(id, manifest, memory) ==
    (id :> [manifest |-> manifest, memory |-> memory]) @@ instances

Dropped(id) == [i \in (DOMAIN instances) \ {id} |-> instances[i]]

Init ==
    /\ catalog = {}
    /\ pc = [b \in Backends |-> "idle"]
    /\ stmt = [b \in Backends |-> NoStatement]
    /\ held = [b \in Backends |-> 0]
    /\ instances = <<>>
    /\ started = 0
    /\ elapsed = [b \in Backends |-> 0]
    /\ last = [b \in Backends |-> NoResult]

\* select extism_define(path, name): up to the loaded plugin.  A module that
\* does not load panics in new_plugin, which aborts the statement.
BeginDefine(b, path, name, loads) ==
    LET np == new_plugin(path, loads)
        id == AllocInstance(path, instances, started)
    IN  /\ pc[b] = "idle"
        /\ started < MaxStatements
        /\ started' = started + 1
        /\ stmt' = [stmt EXCEPT ![b] = Statement("define", path, name, NoFn, <<>>, loads)]
        /\ IF np.loaded
           THEN /\ pc' = [pc EXCEPT ![b] = "defining"]
                /\ held' = [held EXCEPT ![b] = id]
                /\ instances' = Loaded(id, np.manifest, <<>>)
                /\ last' = [last EXCEPT ![b] = NoResult]
           ELSE /\ last' = [last EXCEPT ![b] =
                              Result("define", Outcome("error", ErrLoad, SqlNull, ""),
                                     FALSE, NoSql, "", <<>>)]
                /\ UNCHANGED <<pc, held, instances>>
        /\ UNCHANGED <<catalog, elapsed>>

\* The rest of extism_define; the plugin and its context are dropped on return.
ResolveDefine(b) ==
    LET r == extism_define(stmt[b].path, stmt[b].name, catalog)
    IN  /\ pc[b] = "defining"
        /\ catalog' = r.catalog
        /\ last' = [last EXCEPT ![b] =
                      Result("define",
                             Outcome(IF r.ok THEN "ok" ELSE "error", r.error, SqlNull, ""),
                             r.catalog # catalog, r.sql, "", <<>>)]
        /\ pc' = [pc EXCEPT ![b] = "idle"]
        /\ instances' = Dropped(held[b])
        /\ held' = [held EXCEPT ![b] = 0]
        /\ UNCHANGED <<stmt, started, elapsed>>

\* A call of an installed function: the argument object, extism_call up to
\* plugin.call.  A function the plugin does not export fails the call at once.
BeginCall(b, fn, args, loads) ==
    LET bo == BuildObject(fn, args)
        np == new_plugin(fn.path, loads)
        id == AllocInstance(fn.path, instances, started)
        finish(o, how) ==
            /\ last' = [last EXCEPT ![b] = Result("call", o, FALSE, NoSql, how, bo.obj)]
            /\ UNCHANGED <<pc, held, instances, elapsed>>
    IN  /\ pc[b] = "idle"
        /\ started < MaxStatements
        /\ fn \in catalog
        /\ args \in ArgsFor(fn)
        /\ started' = started + 1
        /\ stmt' = [stmt EXCEPT ![b] = Statement("call", fn.path, fn.name, fn, args, loads)]
        /\ IF ~bo.ok THEN finish(WhenOthers(ErrColumn), "")
           ELSE IF ~np.loaded THEN finish(WhenOthers(ErrLoad), "")
           ELSE IF fn.entry_point \notin Plugin(fn.path).exports
           THEN finish(BodyAfterCall(fn, PluginCall(fn.path, bo.obj, "missing")), "missing")
           ELSE /\ pc' = [pc EXCEPT ![b] = "running"]
                /\ held' = [held EXCEPT ![b] = id]
                /\ instances' = Loaded(id, np.manifest, bo.obj)
                /\ elapsed' = [elapsed EXCEPT ![b] = 0]
                /\ last' = [last EXCEPT ![b] = NoResult]
        /\ UNCHANGED catalog

\* The end of a running call, the rest of extism_call and of the body.
FinishCall(b, how) ==
    LET fn == stmt[b].fn
        input == instances[held[b]].memory
    IN  /\ last' = [last EXCEPT ![b] =
                      Result("call", BodyAfterCall(fn, PluginCall(fn.path, input, how)),
                             FALSE, NoSql, how, input)]
        /\ pc' = [pc EXCEPT ![b] = "idle"]
        /\ instances' = Dropped(held[b])
        /\ held' = [held EXCEPT ![b] = 0]
        /\ elapsed' = [elapsed EXCEPT ![b] = 0]
        /\ UNCHANGED <<catalog, stmt, started>>

Timeout(b) == instances[held[b]].manifest.timeout

\* One second passes in a running plugin call.
Tick(b) ==
    /\ pc[b] = "running"
    /\ elapsed[b] < ElapsedCap
    /\ Timeout(b) # None => elapsed[b] < Timeout(b)[1]
    /\ elapsed' = [elapsed EXCEPT ![b] = elapsed[b] + 1]
    /\ UNCHANGED <<catalog, pc, stmt, held, instances, started, last>>

\* The entry point ends before the timeout: it returns bytes or traps.
PluginReturn(b, how) ==
    /\ pc[b] = "running"
    /\ how \in {"ok"} \cup Plugin(stmt[b].path).faults
    /\ Timeout(b) # None => elapsed[b] < Timeout(b)[1]
    /\ FinishCall(b, how)

\* The manifest's timeout expires: the runtime ends the call with an error.
TimeoutKill(b) ==
    /\ pc[b] = "running"
    /\ Timeout(b) # None
    /\ elapsed[b] >= Timeout(b)[1]
    /\ FinishCall(b, "timeout")

Step(b) ==
    \/ \E path \in Paths, name \in Names, loads \in BOOLEAN :
          BeginDefine(b, path, name, loads)
    \/ ResolveDefine(b)
    \/ \E fn \in catalog, loads \in BOOLEAN :
          \E args \in ArgsFor(fn) : BeginCall(b, fn, args, loads)
    \/ Tick(b)
    \/ \E how \in {"ok", "trap", "nonutf8", "nonjson", "nofield"} : PluginReturn(b, how)
    \/ TimeoutKill(b)

Next == \E b \in Backends : Step(b)

Spec == Init /\ [][Next]_vars

\* Time passes in a running call and the runtime's timer fires when due.
Clock(b) == Tick(b) \/ TimeoutKill(b)

FairSpec == Spec /\ \A b \in Backends : WF_vars(Clock(b))

\* --------------------------------------------------------------- properties

\* The metadata a finished extism_define of backend b worked from.
MetadataOf(b) == ParseMetadata(Plugin(stmt[b].path).meta)

DefineDone(b) == last[b].op = "define"

CallDone(b) == last[b].op = "call"

\* C1: a define of a plugin without a metadata export fails with the
\* "Expected a metadata function" error; a failing metadata call and metadata
\* that does not parse fail the statement too; a failed define (these, a module
\* that does not load, a statement the engine refuses) leaves the catalog as it
\* was, and a define that changed the catalog passed has_function, the call
\* and the parse.
DefineFailureIsHardError ==
    \A b \in Backends :
        DefineDone(b) =>
            LET p == Plugin(stmt[b].path)
                resolved == /\ stmt[b].loads
                            /\ "metadata" \in p.exports
                            /\ p.meta_ok
                            /\ MetadataOf(b).ok
            IN  /\ (stmt[b].loads /\ "metadata" \notin p.exports) =>
                       (last[b].status = "error" /\ last[b].error = ErrNoContract)
                /\ ~resolved => last[b].status = "error"
                /\ last[b].status = "error" => ~last[b].changed
                /\ last[b].changed => resolved
                /\ last[b].sql # NoSql => resolved

\* C1 witness: a define failed for want of a metadata export while the catalog
\* held a function, which is still there.
DefineFailedNoContract ==
    \E b \in Backends :
        /\ DefineDone(b)
        /\ last[b].error = ErrNoContract
        /\ ~last[b].changed
        /\ catalog # {}

\* C2: the definition generated from metadata with N parameters has N
\* parameters in its signature, each declared name once with its column type,
\* and N pairs in its argument object, each declared name once as a key whose
\* value is the parameter of that name; the signature is in reversed iteration
\* order and the object in iteration order.
SynthesizedParameters ==
    \A b \in Backends :
        (DefineDone(b) /\ last[b].sql # NoSql) =>
            LET md == MetadataOf(b).md
                declared == DOMAIN md.parameters
                N == Cardinality(declared)
                sql == last[b].sql
            IN  /\ Len(sql.params) = N
                /\ Len(sql.object) = N
                /\ \A n \in declared :
                      /\ Cardinality({i \in 1..N : sql.params[i].name = n}) = 1
                      /\ Cardinality({i \in 1..N : sql.object[i].key = n}) = 1
                      /\ \A i \in 1..N :
                            sql.params[i].name = n =>
                                sql.params[i].type = type_to_sql(md.parameters[n])
                      /\ \A i \in 1..N : sql.object[i].key = n => sql.object[i].var = n
                /\ \A i \in 1..N : sql.object[i].key = sql.params[N + 1 - i].name

\* C2 witness: a definition was generated for two parameters, whose order in
\* the signature differs from their order in the object.
SynthesizedTwoParameters ==
    \E b \in Backends :
        /\ DefineDone(b)
        /\ Len(last[b].sql.params) = 2
        /\ last[b].sql.params[1].name # last[b].sql.object[1].key
        /\ last[b].sql.object[1].var = last[b].sql.object[1].key

\* The installed functions of a name.
Named(cat, n) == {f \in cat : f.name = n}

\* C3: when a define succeeds, the catalog holds one function of the exposed
\* name, the one just generated (its signature, entry point and module); a
\* function of that name with another signature is gone.
DefineReplacesByName ==
    [][\A b \in Backends :
          (pc[b] = "defining" /\ pc'[b] = "idle" /\ last'[b].status = "ok") =>
              /\ Cardinality(Named(catalog', stmt[b].name)) = 1
              /\ \A f \in Named(catalog', stmt[b].name) :
                    /\ f.path = last'[b].sql.path
                    /\ f.entry_point = last'[b].sql.entry_point
                    /\ f.object = last'[b].sql.object]_vars

\* Whether the call of backend b failed at a stage: the argument object, the
\* load, the plugin call, the UTF-8 decoding, the JSON parse or the cast.
StageFailed(b) ==
    \/ ~BuildObject(stmt[b].fn, stmt[b].args).ok
    \/ ~stmt[b].loads
    \/ last[b].how \in {"missing", "trap", "timeout", "nonutf8", "nonjson"}
    \/ /\ last[b].how = "ok"
       /\ LET field == stmt[b].fn.return_field
              doc == Doc(TRUE, field, Compute(stmt[b].path, last[b].input))
              x == GetFieldText(doc, field)
          IN  x # SqlNull /\ ~CastText(x.v.s, stmt[b].fn.cast).ok

InvocationReturns ==
    /\ [](\A b \in Backends :
             /\ pc[b] = "running" => elapsed[b] <= TimeoutSecs
             /\ (CallDone(b) /\ last[b].how = "timeout") =>
                    (last[b].status = "ok" /\ last[b].value = SqlNull))
    /\ \A b \in Backends : (pc[b] = "running") ~> (pc[b] = "idle")

\* C5 witness: a call ran into the timeout and returned NULL.
TimedOutCallReturned ==
    \E b \in Backends :
        /\ CallDone(b)
        /\ last[b].how = "timeout"
        /\ last[b].status = "ok"
        /\ last[b].value = SqlNull
        /\ pc[b] = "idle"

\* C6: every installed function calls an entry point that is not empty and
\* that its plugin exports, and a define whose metadata names another entry
\* point fails and installs nothing.
EntryPointValidated ==
    /\ \A f \in catalog :
          f.entry_point # "" /\ f.entry_point \in Plugin(f.path).exports
    /\ \A b \in Backends :
          (/\ DefineDone(b)
           /\ last[b].sql # NoSql
           /\ MetadataOf(b).md.entry_point \notin Plugin(stmt[b].path).exports) =>
              (last[b].status = "error" /\ ~last[b].changed)

\* C7: a define whose metadata has a parameter name that is no identifier
\* fails, generates no definition text and installs nothing; the parameter
\* names of every installed definition are identifiers.
IdentifiersValidated ==
    /\ \A f \in catalog :
          \A i \in 1..Len(f.object) : f.object[i].key \in Identifiers
    /\ \A b \in Backends :
          (/\ DefineDone(b)
           /\ stmt[b].loads
           /\ "metadata" \in Plugin(stmt[b].path).exports
           /\ Plugin(stmt[b].path).meta_ok
           /\ MetadataOf(b).ok
           /\ \E n \in DOMAIN MetadataOf(b).md.parameters : n \notin Identifiers) =>
              (last[b].status = "error" /\ last[b].sql = NoSql /\ ~last[b].changed)

\* C8: every live instance, loaded by a define or by a call, runs under the
\* same manifest values: five memory pages, the one allowed host, the root
\* path, the ten second timeout and the one configuration key with its fixed
\* value, whatever the module, the entry point and the arguments.
SandboxConfigurationFixed ==
    \A i \in DOMAIN instances :
        LET m == instances[i].manifest
        IN  /\ m.max_pages = Some(MaxPages)
            /\ m.allowed_hosts = {"api.openai.com"}
            /\ m.allowed_paths = {<<"/", "/">>}
            /\ m.timeout = Some(TimeoutSecs)
            /\ m.config = {<<"openai_apikey", "">>}
            /\ \A j \in DOMAIN instances :
                  [instances[j].manifest EXCEPT !.wasm = ""] = [m EXCEPT !.wasm = ""]

\* C8 witness: two instances are live for calls with different arguments.
TwoInstancesDifferentArguments ==
    \E i, j \in DOMAIN instances :
        /\ i # j
        /\ instances[i].memory # <<>>
        /\ instances[j].memory # <<>>
        /\ instances[i].memory # instances[j].memory
        /\ instances[i].manifest.config = instances[j].manifest.config

\* The value of the declared parameter n in a call of fn with args: callers
\* pass arguments in the order of the installed signature.
DeclaredArgument(fn, args, n) ==
    IF \E j \in 1..Len(fn.args) : fn.args[j].name = n
    THEN args[CHOOSE j \in 1..Len(fn.args) : fn.args[j].name = n].v
    ELSE JNull

\* The envelope with every declared parameter under its name.
DeclaredEnvelope(fn, args, md) ==
    LET names == Iter(md.parameters)
    IN  [i \in 1..Len(names) |->
            [key |-> names[i], val |-> DeclaredArgument(fn, args, names[i])]]

\* C9: when the plugin's entry point returns {return_field: computed}, the
\* plugin received the declared arguments by name and the function returns
\* computed as a value of the declared return type.
RoundTrip ==
    \A b \in Backends :
        (CallDone(b) /\ last[b].how = "ok") =>
            LET fn == stmt[b].fn
                md == ParseMetadata(Plugin(fn.path).meta).md
                envelope == DeclaredEnvelope(fn, stmt[b].args, md)
            IN  /\ last[b].input = envelope
                /\ last[b].value =
                      [t |-> type_to_sql(md.return_type), v |-> Compute(fn.path, envelope)]

\* C10: a backend holds an instance exactly while it runs a define or a call,
\* no two backends hold the same instance, every live instance is held by one
\* backend, and the memory of the instance a call runs in holds that call's
\* envelope.
InstancePerCall ==
    /\ \A b \in Backends :
          /\ (pc[b] = "idle") <=> (held[b] = 0)
          /\ held[b] # 0 => held[b] \in DOMAIN instances
          /\ pc[b] = "running" =>
                instances[held[b]].memory = BuildObject(stmt[b].fn, stmt[b].args).obj
          /\ \A c \in Backends : (c # b /\ held[b] # 0) => held[c] # held[b]
    /\ \A i \in DOMAIN instances : \E b \in Backends : held[b] = i

\* C10 witness: two backends run calls of the same module at the same time,
\* each in its own instance.
TwoCallsSameModule ==
    \E b, c \in Backends :
        /\ b # c
        /\ pc[b] = "running"
        /\ pc[c] = "running"
        /\ stmt[b].path = stmt[c].path
        /\ held[b] # held[c]
        /\ stmt[b].args # stmt[c].args

====
